---- MODULE Spec2Model ----
(***************************************************************************)
(* nosleep: the NoSleep controller (core.py) with its three callers: the   *)
(* command line (cli.py main), a direct user of the exported class, and    *)
(* the tray, whose other threads call stop() on the running instance.      *)
(*                                                                         *)
(* Time is counted in ticks of half a second, so that the 500 ms backoff   *)
(* of prevent_sleep is one tick.                                           *)
(***************************************************************************)
EXTENDS Integers, FiniteSets, Sequences, TLC

VARIABLES
    caller,            \* "cli" (cli.main), "api" (NoSleep.run called directly), "tray"
    duration_minutes,  \* run() argument; 0 stands for None (both are falsy)
    interval_seconds,  \* run() argument
    verbose,           \* run() argument
    prevent_display,   \* run() argument
    away_mode,         \* run() argument
    script,            \* what the OS calls answer and how late the sleeps wake, when scripted
    phase,             \* 0: a single run; 1, 2: the first and second run of a compared pair
    first,             \* the first run of a pair, as it stood when the second was started
    running,           \* self.running
    start_time,        \* self.start_time; -1 stands for None
    end_time,          \* local end_time of run(); -1 while unset
    pc,                \* position of each thread
    attempt,           \* loop variable of prevent_sleep
    success,           \* value returned by the last prevent_sleep
    refresh_count,     \* local of run()
    failure_count,     \* local of run()
    exc,               \* exception in flight in the loop thread
    now,               \* the clock, in ticks
    clears,            \* OS clear calls made so far (allow_sleep)
    lastOS,            \* the last OS call made: "none", "assert", "clear"
    lastFlags,         \* the argument of the last OS call, as the set of its bits
    clearFailed,       \* per thread: the OS clear call of its current stop()
                       \* returned 0 or raised
    everOk,            \* some OS assert call returned non-zero
    exitReason,        \* why the loop was left
    sawRunning,        \* per thread: what the check of its current stop() read
    callClears,        \* per thread: OS clear calls of its current stop()
    stopCalls,         \* per thread: stop() calls begun
    earlyStops,        \* stop() calls of the tray thread that returned before run()
                       \* was entered
    intAt,             \* where the loop thread was when the interrupt arrived
    reqAt,             \* when the first external stop() began: "waiting" if the loop
                       \* thread was at one of WaitingPcs, "busy" if elsewhere
    expired,           \* a duration check has observed now >= end_time
    sleeps,            \* interval sleeps completed
    reported,          \* the current refresh has logged its status line
    lastOk,            \* number of the last refresh whose prevent_sleep returned True
    tried,             \* outcomes of the OS calls of the current prevent_sleep
    backoffs,          \* backoff sleeps of the current prevent_sleep
    psStart,           \* the clock when the current prevent_sleep was entered
    is_running,        \* NoSleepTray.is_running
    stop_event,        \* NoSleepTray.stop_event: the flag of the threading.Event
    nosleep,           \* NoSleepTray.nosleep: the number of the instance, or None
    timer_thread,      \* NoSleepTray.timer_thread: a thread, or None
    nosleep_thread,    \* NoSleepTray.nosleep_thread: a thread, or None
    tray_duration,     \* NoSleepTray.duration_minutes; None for indefinitely
    ui,                \* the icon: "inactive" (gray) or "active" (green)
    sessions,          \* start_nosleep calls made so far
    tpc,               \* position of each thread of the tray
    ret,               \* per thread: where its stop_nosleep call returns to
    ref,               \* per worker: the instance its self.nosleep.run(...) found
    wdur,              \* per worker: its run() was given a duration
    inst_running,      \* per instance created by the tray: its self.running
    elapsed,           \* per timer: its wait ended because the duration had elapsed
    fired,             \* per timer: it has called on_timeout
    firedCurrent,      \* per timer: it called on_timeout while its own session was
                       \* the running one
    trayStopped        \* per instance: stop_nosleep has called its stop()

vars == <<caller, duration_minutes, interval_seconds, verbose, prevent_display,
          away_mode, script, phase, first, running, start_time, lastFlags, earlyStops,
          clearFailed,
          end_time, pc, attempt, success, refresh_count, failure_count, exc, now,
          clears, lastOS, everOk, exitReason, sawRunning, callClears, stopCalls,
          intAt, reqAt, expired, sleeps, reported, lastOk, tried, backoffs, psStart,
          is_running, stop_event, nosleep, timer_thread, nosleep_thread, tray_duration,
          ui, sessions, tpc, ret, ref, wdur, inst_running, elapsed, fired, firedCurrent,
          trayStopped>>

(***************************************************************************)
(* Bounds of the model.  MaxRefresh caps the refreshes of a run; it is     *)
(* reached only by a run without duration or with an interval below the    *)
(* default.  MaxFairStops is the number of stop() calls of the tray thread  *)
(* in the runs of FairSpec, MaxSecondAt the last refresh during            *)
(* which the second run() call of ReentrySpec is made, ScriptLen the       *)
(* length of the cycle of OS answers that the two runs of PairSpec see.    *)
(***************************************************************************)
MaxDurationMinutes == 1
MaxJitter == 1
MaxRefresh == 6
MaxExtStops == 2
MaxFairStops == 1
MaxSecondAt == 1
ScriptLen == 3
MaxSessions == 2

(***************************************************************************)
(* Program constants.                                                      *)
(***************************************************************************)
MAX_FAILURES == 5
DefaultInterval == 20
TicksPerSecond == 2
SecondsPerMinute == 60
BackoffTicks == 1
OneSecond == 1

\* the thread that runs run(), the tray thread that calls stop(), and a thread
\* of a direct user that calls run() a second time on the same instance
Threads == {"loop", "timer", "second"}
Callers == {"cli", "api", "tray"}
Outcomes == {"ok", "zero", "raise"}

\* constants.py: the flags of SetThreadExecutionState, each the set of the bit
\* positions that are 1 in it (0x80000000, 0x1, 0x2, 0x40)
ES_CONTINUOUS == {31}
ES_SYSTEM_REQUIRED == {0}
ES_DISPLAY_REQUIRED == {1}
ES_AWAYMODE_REQUIRED == {6}

\* a | b on two flag words
BitOr(a, b) == a \cup b

\* faulty variant of AssertFlags: the two optional flags exchanged
AssertFlagsSwapped(pd, am) ==
    LET base == BitOr(ES_CONTINUOUS, ES_SYSTEM_REQUIRED)
        disp == IF am THEN BitOr(base, ES_DISPLAY_REQUIRED) ELSE base
    IN  IF pd THEN BitOr(disp, ES_AWAYMODE_REQUIRED) ELSE disp

\* prevent_sleep: flags = ES_CONTINUOUS | ES_SYSTEM_REQUIRED, then
\* if prevent_display: flags |= ES_DISPLAY_REQUIRED, then
\* if away_mode: flags |= ES_AWAYMODE_REQUIRED
AssertFlags(pd, am) ==
    LET base == BitOr(ES_CONTINUOUS, ES_SYSTEM_REQUIRED)
        disp == IF pd THEN BitOr(base, ES_DISPLAY_REQUIRED) ELSE base
    IN  IF am THEN BitOr(disp, ES_AWAYMODE_REQUIRED) ELSE disp

\* allow_sleep: SetThreadExecutionState(constants.ES_CONTINUOUS)
ClearFlags == ES_CONTINUOUS

Durations == 0..MaxDurationMinutes
\* intervals a caller may pass: invalid ones, one second, the default, and one
\* as long as the shortest duration
Intervals == {-1, 0, OneSecond, DefaultInterval, SecondsPerMinute}

\* timedelta(minutes=duration_minutes), in ticks
Minutes(m) == m * SecondsPerMinute * TicksPerSecond

\* faulty variant of Seconds: a sleep of half the interval
SecondsHalved(s) == s

\* time.sleep(interval_seconds), in ticks
Seconds(s) == s * TicksPerSecond

\* faulty variant of EndTime: the duration taken as seconds, timedelta(seconds=duration_minutes)
EndTimeSeconds(start, m) == start + Seconds(m)

\* end_time = self.start_time + timedelta(minutes=duration_minutes)
EndTime(start, m) == start + Minutes(m)

\* faulty variant of DurationElapsed: the clock compared with == instead of >=
DurationElapsedExact(m, t, e) == m # 0 /\ t = e

\* duration_minutes and datetime.now() >= end_time
DurationElapsed(m, t, e) == m # 0 /\ t >= e

\* faulty variant of FatalReached: the threshold compared with > instead of >=
FatalReachedLate(fc) == fc > MAX_FAILURES

\* failure_count >= MAX_FAILURES
FatalReached(fc) == fc >= MAX_FAILURES

\* faulty variant of StartRunning: a stop() that came first is remembered and
\* the run is not started
StartRunningUnlessStopped(stopped) == ~stopped

\* self.running = True at the top of run(), whatever stop() calls came before
StartRunning(stopped) == TRUE

\* faulty variant of StopGuard: stop() without its guard
StopGuardAlways(r) == TRUE

\* if self.running: in stop()
StopGuard(r) == r

\* result != 0
Succeeded(outcome) == outcome = "ok"

\* faulty variant of StatusDue: the status line on the odd refreshes
StatusDueOdd(v, n) == v \/ n % 2 = 1

\* if verbose or refresh_count % 2 == 0: the status line of a successful refresh
StatusDue(v, n) == v \/ n % 2 = 0

\* faulty variant of NextFailures: the reset of the counter placed under the
\* test that guards the status line
NextFailuresIfLogged(ok, fc) ==
    IF ok THEN (IF StatusDue(verbose, refresh_count) THEN 0 ELSE fc) ELSE fc + 1

\* faulty variant of NextFailures: a success that leaves the counter alone
NextFailuresNoReset(ok, fc) == IF ok THEN fc ELSE fc + 1

\* if success: failure_count = 0 ... else: failure_count += 1
NextFailures(ok, fc) == IF ok THEN 0 ELSE fc + 1

\* faulty variant of InitialFailures: the failed initial attempt counted
InitialFailuresCounted(ok) == IF ok THEN 0 ELSE 1

\* failure_count = 0 at the top of the try block, whatever the initial
\* prevent_sleep returned
InitialFailures(ok) == 0

\* faulty variant of FirstAttempt: a backoff and a further try after every failure
FirstAttemptAlways(a) == a <= 1

\* if attempt == 0: in prevent_sleep, for attempt in range(2)
FirstAttempt(a) == a = 0

\* faulty variant of Escapes: the exception of an OS call left uncaught
EscapesRaise(o) == o = "raise"

\* an outcome of the OS call that leaves prevent_sleep or allow_sleep as an
\* exception: none, except Exception catches what the call raises
Escapes(o) == FALSE

\* faulty variant of ClearAgain: a failed clear call tried once more
ClearAgainOnFailure(o) == ~Succeeded(o) /\ clears = 0

\* allow_sleep makes its OS call once and stop() calls allow_sleep once: no
\* outcome of the call leads to another one
ClearAgain(o) == FALSE

InitialPcs == {"init_call", "init_backoff", "init_ret"}
LoopPcs == {"loop_head", "refresh_call", "refresh_backoff", "refresh_ret", "sleep",
            "dur_check"}
StopPcs == {"stop_check", "stop_set", "stop_clear"}

\* the positions where run() is in a sleep (the backoff of the initial
\* attempt, the interval sleep) or between two refresh attempts
WaitingPcs == {"init_backoff", "sleep", "dur_check", "loop_head"}

\* faulty variant of InTry: the interval sleep left outside the try block
InTryNoSleep(p) == p \in LoopPcs \ {"sleep"}

\* the positions of run() inside its try block
InTry(p) == p \in LoopPcs

\* The state of a new controller before run() is called: NoSleep.__init__, the
\* clock at 0 and nothing recorded.
Fresh ==
    /\ running = FALSE
    /\ start_time = -1
    /\ end_time = -1
    /\ pc = [t \in Threads |-> IF t = "loop"
                                 THEN (IF caller = "cli" THEN "main" ELSE "entry")
                                 ELSE "idle"]
    /\ attempt = 0
    /\ success = FALSE
    /\ refresh_count = 0
    /\ failure_count = 0
    /\ exc = "none"
    /\ now = 0
    /\ clears = 0
    /\ lastOS = "none"
    /\ lastFlags = {}
    /\ clearFailed = [t \in Threads |-> FALSE]
    /\ everOk = FALSE
    /\ exitReason = "none"
    /\ sawRunning = [t \in Threads |-> FALSE]
    /\ callClears = [t \in Threads |-> 0]
    /\ stopCalls = [t \in Threads |-> 0]
    /\ earlyStops = 0
    /\ intAt = "none"
    /\ reqAt = "none"
    /\ expired = FALSE
    /\ sleeps = 0
    /\ reported = FALSE
    /\ lastOk = 0
    /\ tried = <<>>
    /\ backoffs = 0
    /\ psStart = -1

\* The threads of the tray: the timer and the worker that session k starts, and
\* the thread that runs the menu callbacks.  An instance has the number of the
\* session that created it.
None == 0
Sessions == 1..MaxSessions
TimerOf(k) == k
WorkerOf(k) == MaxSessions + k
Gui == 2 * MaxSessions + 1
TrayThreads == 1..Gui

\* NoSleepTray.__init__, no thread started
TrayFresh ==
    /\ is_running = FALSE
    /\ stop_event = FALSE
    /\ nosleep = None
    /\ timer_thread = None
    /\ nosleep_thread = None
    /\ tray_duration = None
    /\ ui = "inactive"
    /\ sessions = 0
    /\ tpc = [x \in TrayThreads |-> IF x = Gui THEN "idle" ELSE "unstarted"]
    /\ ret = [x \in TrayThreads |-> "none"]
    /\ ref = [k \in Sessions |-> None]
    /\ wdur = [k \in Sessions |-> FALSE]
    /\ inst_running = [k \in Sessions |-> FALSE]
    /\ elapsed = [k \in Sessions |-> FALSE]
    /\ fired = [k \in Sessions |-> FALSE]
    /\ firedCurrent = [k \in Sessions |-> FALSE]
    /\ trayStopped = [k \in Sessions |-> FALSE]

\* the runs for which the display and away-mode options are varied: those of the
\* direct user with the default interval and verbose off
FlagsVaried == caller = "api" /\ interval_seconds = DefaultInterval /\ ~verbose

\* The arguments the callers pass: the tray always the same ones (tray.py
\* _run_nosleep).
Init ==
    /\ caller \in Callers
    /\ duration_minutes \in Durations
    /\ interval_seconds \in (IF caller = "tray" THEN {DefaultInterval} ELSE Intervals)
    /\ verbose \in (IF caller = "tray" THEN {FALSE} ELSE BOOLEAN)
    /\ prevent_display \in (IF FlagsVaried THEN BOOLEAN ELSE {FALSE})
    /\ away_mode \in (IF FlagsVaried THEN BOOLEAN ELSE {FALSE})
    /\ script = <<>>
    /\ phase = 0
    /\ first = <<>>
    /\ Fresh
    /\ TrayFresh

trayobj == <<is_running, stop_event, nosleep, timer_thread, nosleep_thread,
             tray_duration, ui, sessions>>
workerloc == <<ref, wdur>>
trayhist == <<elapsed, fired, firedCurrent, trayStopped>>
trayvars == <<trayobj, tpc, ret, workerloc, inst_running, trayhist>>
params == <<caller, duration_minutes, interval_seconds, verbose, prevent_display,
            away_mode, script, phase, first, trayvars>>
cfg == <<params, earlyStops>>
locals == <<attempt, success, refresh_count, failure_count>>
oshist == <<clears, lastOS, lastFlags, clearFailed, everOk>>
stophist == <<sawRunning, callClears, stopCalls>>
tryhist == <<tried, backoffs, psStart>>
refhist == <<reported, lastOk, tried, backoffs, psStart>>

Goto(t, p) == [pc EXCEPT ![t] = p]

\* finally: self.stop() -- the loop thread enters stop()
EnterStop == [stopCalls EXCEPT !["loop"] = @ + 1]

(***************************************************************************)
(* cli.main: the interval is validated before the controller is built.     *)
(***************************************************************************)
MainValidate ==
    /\ pc["loop"] = "main"
    /\ pc' = Goto("loop", IF interval_seconds <= 0 THEN "rejected" ELSE "entry")
    /\ UNCHANGED <<cfg, refhist, running, start_time, end_time, locals, exc, now, oshist,
                   exitReason, stophist, intAt, reqAt, expired, sleeps>>

(***************************************************************************)
(* NoSleep.run                                                             *)
(***************************************************************************)
RunStart ==
    /\ pc["loop"] = "entry"
    /\ running' = StartRunning(earlyStops > 0)
    /\ start_time' = now
    /\ end_time' = IF duration_minutes # 0 THEN EndTime(now, duration_minutes) ELSE -1
    /\ attempt' = 0
    /\ tried' = <<>>
    /\ backoffs' = 0
    /\ psStart' = now
    /\ pc' = Goto("loop", "init_call")
    /\ UNCHANGED <<cfg, success, refresh_count, failure_count, exc, now, oshist,
                   exitReason, stophist, intAt, reqAt, expired, sleeps, reported,
                   lastOk>>

\* One SetThreadExecutionState(flags) call of prevent_sleep, and what the for
\* loop does with its result; attempt goes out of scope when prevent_sleep returns.
\* An exception of the call is caught inside prevent_sleep and counts as a
\* failed try.
OsAssert ==
    /\ pc["loop"] \in {"init_call", "refresh_call"}
    /\ \E o \in Outcomes :
        /\ lastOS' = "assert"
        /\ lastFlags' = AssertFlags(prevent_display, away_mode)
        /\ everOk' = (everOk \/ Succeeded(o))
        /\ tried' = Append(tried, o)
        /\ lastOk' = IF Succeeded(o) /\ pc["loop"] = "refresh_call"
                       THEN refresh_count ELSE lastOk
        /\ IF Escapes(o)
             THEN /\ exc' = "OSError"
                  /\ UNCHANGED <<success, attempt>>
                  /\ IF InTry(pc["loop"])
                       THEN /\ exitReason' = "error"
                            /\ pc' = Goto("loop", "stop_check")
                            /\ stopCalls' = EnterStop
                       ELSE /\ pc' = Goto("loop", "raised")
                            /\ UNCHANGED <<exitReason, stopCalls>>
             ELSE /\ UNCHANGED <<exc, exitReason, stopCalls>>
                  /\ IF Succeeded(o)
                       THEN /\ success' = TRUE
                            /\ attempt' = 0
                            /\ pc' = Goto("loop", IF pc["loop"] = "init_call"
                                                    THEN "init_ret"
                                                    ELSE "refresh_ret")
                       ELSE IF FirstAttempt(attempt)
                              THEN /\ UNCHANGED <<success, attempt>>
                                   /\ pc' = Goto("loop", IF pc["loop"] = "init_call"
                                                           THEN "init_backoff"
                                                           ELSE "refresh_backoff")
                              ELSE /\ success' = FALSE
                                   /\ attempt' = 0
                                   /\ pc' = Goto("loop", IF pc["loop"] = "init_call"
                                                           THEN "init_ret"
                                                           ELSE "refresh_ret")
    /\ UNCHANGED <<cfg, running, start_time, end_time, refresh_count,
                   failure_count, now, clears, clearFailed, sawRunning, callClears, intAt,
                   reqAt, expired, sleeps, reported, backoffs, psStart>>

\* if attempt == 0: time.sleep(0.5), then the second pass of the for loop
PsBackoff ==
    /\ pc["loop"] \in {"init_backoff", "refresh_backoff"}
    /\ now' = now + BackoffTicks
    /\ backoffs' = backoffs + 1
    /\ attempt' = attempt + 1
    /\ pc' = Goto("loop", IF pc["loop"] = "init_backoff" THEN "init_call"
                                                           ELSE "refresh_call")
    /\ UNCHANGED <<cfg, running, start_time, end_time, success, refresh_count,
                   failure_count, exc, oshist, exitReason, stophist, intAt, reqAt,
                   expired, sleeps, reported, lastOk, tried, psStart>>

\* the initial prevent_sleep has returned; the try block is entered
InitReturn ==
    /\ pc["loop"] = "init_ret"
    /\ refresh_count' = 0
    /\ failure_count' = InitialFailures(success)
    /\ tried' = <<>>
    /\ backoffs' = 0
    /\ psStart' = -1
    /\ pc' = Goto("loop", "loop_head")
    /\ UNCHANGED <<cfg, running, start_time, end_time, attempt, success, exc, now,
                   oshist, exitReason, stophist, intAt, reqAt, expired, sleeps,
                   reported, lastOk>>

\* while self.running: refresh_count += 1; prevent_sleep(...)
LoopHead ==
    /\ pc["loop"] = "loop_head"
    /\ refresh_count < MaxRefresh
    /\ IF running
         THEN /\ refresh_count' = refresh_count + 1
              /\ attempt' = 0
              /\ reported' = FALSE
              /\ tried' = <<>>
              /\ backoffs' = 0
              /\ psStart' = now
              /\ pc' = Goto("loop", "refresh_call")
              /\ UNCHANGED <<exitReason, stopCalls>>
         ELSE /\ exitReason' = "stopped"
              /\ pc' = Goto("loop", "stop_check")
              /\ stopCalls' = EnterStop
              /\ UNCHANGED <<refresh_count, attempt, reported, tryhist>>
    /\ UNCHANGED <<cfg, running, start_time, end_time, success, failure_count, exc,
                   now, oshist, sawRunning, callClears, intAt, reqAt, expired, sleeps,
                   lastOk>>

\* if success: failure_count = 0 and, if verbose or refresh_count % 2 == 0, the
\* status line; else: failure_count += 1; if failure_count >= MAX_FAILURES: ...
RefreshReturn ==
    /\ pc["loop"] = "refresh_ret"
    /\ failure_count' = NextFailures(success, failure_count)
    /\ reported' = (success /\ StatusDue(verbose, refresh_count))
    /\ tried' = <<>>
    /\ backoffs' = 0
    /\ psStart' = -1
    /\ IF ~success /\ FatalReached(failure_count')
         THEN /\ running' = FALSE
              /\ exitReason' = "fatal"
              /\ pc' = Goto("loop", "stop_check")
              /\ stopCalls' = EnterStop
         ELSE /\ pc' = Goto("loop", "sleep")
              /\ UNCHANGED <<running, exitReason, stopCalls>>
    /\ UNCHANGED <<cfg, start_time, end_time, attempt, success, refresh_count, exc,
                   now, oshist, sawRunning, callClears, intAt, reqAt, expired, sleeps,
                   lastOk>>

\* time.sleep(interval_seconds); a negative argument raises ValueError
IntervalSleep ==
    /\ pc["loop"] = "sleep"
    /\ IF interval_seconds < 0
         THEN /\ exc' = "ValueError"
              /\ exitReason' = "error"
              /\ pc' = Goto("loop", "stop_check")
              /\ stopCalls' = EnterStop
              /\ UNCHANGED <<now, sleeps>>
         ELSE /\ \E j \in 0..MaxJitter : now' = now + Seconds(interval_seconds) + j
              /\ sleeps' = sleeps + 1
              /\ pc' = Goto("loop", "dur_check")
              /\ UNCHANGED <<exc, exitReason, stopCalls>>
    /\ UNCHANGED <<cfg, refhist, running, start_time, end_time, locals, oshist, sawRunning,
                   callClears, intAt, reqAt, expired>>

\* if duration_minutes and datetime.now() >= end_time: break
DurationCheck ==
    /\ pc["loop"] = "dur_check"
    /\ IF DurationElapsed(duration_minutes, now, end_time)
         THEN /\ expired' = TRUE
              /\ exitReason' = "duration"
              /\ pc' = Goto("loop", "stop_check")
              /\ stopCalls' = EnterStop
         ELSE /\ pc' = Goto("loop", "loop_head")
              /\ UNCHANGED <<expired, exitReason, stopCalls>>
    /\ UNCHANGED <<cfg, refhist, running, start_time, end_time, locals, exc, now, oshist,
                   sawRunning, callClears, intAt, reqAt, sleeps>>

\* SIGINT, once: SystemExit from the handler cli.main installs, KeyboardInterrupt
\* otherwise; the tray ignores SIGINT.  Raised before the try block it leaves
\* run() at once, inside the try block it goes through finally.
Interrupt ==
    /\ caller \in {"cli", "api"}
    /\ intAt = "none"
    /\ pc["loop"] \in InitialPcs \cup LoopPcs
    /\ intAt' = pc["loop"]
    /\ exc' = IF caller = "cli" THEN "SystemExit" ELSE "KeyboardInterrupt"
    /\ tried' = <<>>
    /\ backoffs' = 0
    /\ psStart' = -1
    /\ IF InTry(pc["loop"])
         THEN /\ exitReason' = "interrupt"
              /\ pc' = Goto("loop", "stop_check")
              /\ stopCalls' = EnterStop
         ELSE /\ pc' = Goto("loop", "raised")
              /\ UNCHANGED <<exitReason, stopCalls>>
    /\ UNCHANGED <<cfg, running, start_time, end_time, locals, now, oshist,
                   sawRunning, callClears, reqAt, expired, sleeps, reported, lastOk>>

\* except KeyboardInterrupt: ... finally: self.stop() has returned
RunExit ==
    /\ pc["loop"] = "stop_ret"
    /\ pc' = Goto("loop", IF exc \in {"none", "KeyboardInterrupt"} THEN "returned"
                                                                    ELSE "raised")
    /\ UNCHANGED <<cfg, refhist, running, start_time, end_time, locals, exc, now, oshist,
                   exitReason, stophist, intAt, reqAt, expired, sleeps>>

(***************************************************************************)
(* NoSleep.stop, run by the loop thread (finally) or by a tray thread      *)
(***************************************************************************)
\* if self.running:
StopCheck(t) ==
    /\ pc[t] = "stop_check"
    /\ sawRunning' = [sawRunning EXCEPT ![t] = running]
    /\ pc' = Goto(t, IF StopGuard(running) THEN "stop_set" ELSE "stop_ret")
    /\ UNCHANGED <<cfg, refhist, running, start_time, end_time, locals, exc, now, oshist,
                   exitReason, callClears, stopCalls, intAt, reqAt, expired, sleeps>>

\* self.running = False
StopSet(t) ==
    /\ pc[t] = "stop_set"
    /\ running' = FALSE
    /\ pc' = Goto(t, "stop_clear")
    /\ UNCHANGED <<cfg, refhist, start_time, end_time, locals, exc, now, oshist, exitReason,
                   stophist, intAt, reqAt, expired, sleeps>>

\* self.allow_sleep(): one SetThreadExecutionState(ES_CONTINUOUS) call, whatever
\* it returns; an exception of the call is caught inside allow_sleep.  Then the
\* runtime is logged.
StopClear(t) ==
    /\ pc[t] = "stop_clear"
    /\ \E o \in Outcomes :
        /\ clears' = clears + 1
        /\ callClears' = [callClears EXCEPT ![t] = @ + 1]
        /\ lastOS' = "clear"
        /\ lastFlags' = ClearFlags
        /\ clearFailed' = [clearFailed EXCEPT ![t] = ~Succeeded(o)]
        /\ IF Escapes(o) /\ t = "loop"
             THEN /\ exc' = "OSError"
                  /\ pc' = Goto(t, "raised")
             ELSE /\ pc' = Goto(t, IF ClearAgain(o) THEN "stop_clear" ELSE "stop_ret")
                  /\ UNCHANGED exc
    /\ UNCHANGED <<cfg, refhist, running, start_time, end_time, locals, now, everOk,
                   exitReason, sawRunning, stopCalls, intAt, reqAt, expired, sleeps>>

(***************************************************************************)
(* The tray: another thread calls stop() on the instance the worker runs.  *)
(***************************************************************************)
ExtStopCall ==
    /\ caller = "tray"
    /\ pc["timer"] = "idle"
    /\ stopCalls["timer"] < MaxExtStops
    /\ stopCalls' = [stopCalls EXCEPT !["timer"] = @ + 1]
    /\ callClears' = [callClears EXCEPT !["timer"] = 0]
    /\ reqAt' = IF reqAt # "none" THEN reqAt
                 ELSE IF pc["loop"] \in WaitingPcs THEN "waiting" ELSE "busy"
    /\ pc' = Goto("timer", "stop_check")
    /\ UNCHANGED <<cfg, refhist, running, start_time, end_time, locals, exc, now, oshist,
                   exitReason, sawRunning, intAt, expired, sleeps>>

\* the tray thread's stop() has returned; what the call saw is forgotten
ExtStopReturn ==
    /\ pc["timer"] = "stop_ret"
    /\ pc' = Goto("timer", "idle")
    /\ sawRunning' = [sawRunning EXCEPT !["timer"] = FALSE]
    /\ callClears' = [callClears EXCEPT !["timer"] = 0]
    /\ clearFailed' = [clearFailed EXCEPT !["timer"] = FALSE]
    /\ earlyStops' = IF pc["loop"] = "entry" THEN earlyStops + 1 ELSE earlyStops
    /\ UNCHANGED <<params, refhist, running, start_time, end_time, locals, exc, now,
                   clears, lastOS, lastFlags, everOk, exitReason, stopCalls, intAt,
                   reqAt, expired, sleeps>>

(***************************************************************************)
(* A second run() on the same instance, called by another thread of a      *)
(* direct user while the first run() is executing.  The call is followed   *)
(* up to the point where it enters its own refresh loop.                   *)
(***************************************************************************)
\* self.running = True; self.start_time = datetime.now() -- run() tests nothing
\* before it sets them
SecondRunStart ==
    /\ caller = "api"
    /\ pc["second"] = "idle"
    /\ pc["loop"] \in InitialPcs \cup LoopPcs
    /\ refresh_count <= MaxSecondAt
    /\ running' = TRUE
    /\ start_time' = now
    /\ pc' = Goto("second", "second_init")
    /\ UNCHANGED <<cfg, refhist, end_time, locals, exc, now, oshist, exitReason,
                   stophist, intAt, reqAt, expired, sleeps>>

\* the initial prevent_sleep of the second call, whatever it returns
SecondInitial ==
    /\ pc["second"] = "second_init"
    /\ \E o \in Outcomes :
        /\ lastOS' = "assert"
        /\ lastFlags' = AssertFlags(prevent_display, away_mode)
        /\ everOk' = (everOk \/ Succeeded(o))
    /\ pc' = Goto("second", "second_head")
    /\ UNCHANGED <<cfg, refhist, running, start_time, end_time, locals, exc, now,
                   clears, clearFailed, exitReason, stophist, intAt, reqAt, expired,
                   sleeps>>

\* while self.running: of the second call; with running false it goes to
\* finally: self.stop(), which finds nothing to do
SecondLoopEnter ==
    /\ pc["second"] = "second_head"
    /\ pc' = Goto("second", IF running THEN "second_loop" ELSE "second_returned")
    /\ UNCHANGED <<cfg, refhist, running, start_time, end_time, locals, exc, now,
                   oshist, exitReason, stophist, intAt, reqAt, expired, sleeps>>

RunNext ==
    \/ MainValidate
    \/ RunStart
    \/ OsAssert
    \/ PsBackoff
    \/ InitReturn
    \/ LoopHead
    \/ RefreshReturn
    \/ IntervalSleep
    \/ DurationCheck
    \/ RunExit
    \/ StopCheck("loop")
    \/ StopSet("loop")
    \/ StopClear("loop")

Next ==
    \/ RunNext
    \/ Interrupt
    \/ ExtStopCall
    \/ StopCheck("timer")
    \/ StopSet("timer")
    \/ StopClear("timer")
    \/ ExtStopReturn

Spec == Init /\ [][Next]_vars

\* The program without SIGINT and without the tray, with a direct user whose
\* second thread calls run() as well.
ReentryInit == Init /\ caller # "tray" /\ ~prevent_display /\ ~away_mode

ReentryNext ==
    \/ RunNext
    \/ SecondRunStart
    \/ SecondInitial
    \/ SecondLoopEnter

ReentrySpec == ReentryInit /\ [][ReentryNext]_vars

\* The runs with a duration and an interval of the default or more (the runs
\* that MaxRefresh does not cut short), with the loop thread scheduled: a thread
\* that can take a step takes it, and the clock advances with every sleep.
FairInit ==
    /\ Init
    /\ duration_minutes > 0
    /\ interval_seconds >= DefaultInterval
    /\ ~prevent_display
    /\ ~away_mode

\* the tray thread's stop() call, at most MaxFairStops times
FairStopCall ==
    /\ stopCalls["timer"] < MaxFairStops
    /\ ExtStopCall

FairNext ==
    \/ RunNext
    \/ Interrupt
    \/ FairStopCall
    \/ StopCheck("timer")
    \/ StopSet("timer")
    \/ StopClear("timer")
    \/ ExtStopReturn

FairSpec == FairInit /\ [][FairNext]_vars /\ WF_vars(RunNext)

(***************************************************************************)
(* Two runs under one environment.  A script fixes what every OS assert    *)
(* call answers (by the refresh it belongs to and its place in the         *)
(* refresh) and how late every interval sleep wakes.  A direct user runs   *)
(* run() on a new controller, then again on another new controller with    *)
(* verbose negated, under the same script and with the clock set back;     *)
(* the state in which the first run was left is kept for comparison.       *)
(***************************************************************************)
Scripts == [outcomes : [1..ScriptLen -> Outcomes], jitter : 0..MaxJitter]

\* the answer of OS assert call number a (0 or 1) of refresh n (0: the initial
\* attempt)
ScriptOutcome(n, a) == script.outcomes[((2 * n + a) % ScriptLen) + 1]

\* the lateness of the interval sleep of refresh n
ScriptJitter(n) == (script.jitter + n) % (MaxJitter + 1)

\* what an observer of run() sees of the controller and of the OS: everything
\* but the log
Observed ==
    [pc |-> pc["loop"], running |-> running, start_time |-> start_time,
     end_time |-> end_time, attempt |-> attempt, tried |-> tried,
     backoffs |-> backoffs, success |-> success, refresh_count |-> refresh_count,
     failure_count |-> failure_count, lastOk |-> lastOk, exc |-> exc, now |-> now,
     clears |-> clears, lastOS |-> lastOS, lastFlags |-> lastFlags,
     everOk |-> everOk,
     exitReason |-> exitReason, stops |-> stopCalls["loop"], expired |-> expired,
     sleeps |-> sleeps]

\* run() is over, or has got as far as the model follows it
Ended(o) ==
    \/ o.pc \in {"returned", "raised"}
    \/ (o.pc = "loop_head" /\ o.refresh_count = MaxRefresh /\ o.running)

PairInit ==
    /\ caller = "api"
    /\ duration_minutes \in Durations
    /\ interval_seconds \in Intervals
    /\ verbose = FALSE
    /\ prevent_display = FALSE
    /\ away_mode = FALSE
    /\ script \in Scripts
    /\ phase = 1
    /\ first = <<>>
    /\ Fresh
    /\ TrayFresh

\* SetThreadExecutionState(flags) answers as the script says
PairOsAssert ==
    /\ OsAssert
    /\ tried'[Len(tried')] = ScriptOutcome(refresh_count, attempt)

\* time.sleep(interval_seconds) wakes as late as the script says
PairSleep ==
    /\ IntervalSleep
    /\ interval_seconds >= 0
        => now' = now + Seconds(interval_seconds) + ScriptJitter(refresh_count)

\* NoSleep() and run(...) once more, all arguments the same but verbose; the
\* first run is left where it ended or in one of its interval sleeps
PairRestart ==
    /\ phase = 1
    /\ Ended(Observed) \/ pc["loop"] = "sleep"
    /\ first' = Observed
    /\ phase' = 2
    /\ verbose' = ~verbose
    /\ UNCHANGED <<caller, duration_minutes, interval_seconds, prevent_display,
                   away_mode, script, trayvars>>
    /\ running' = FALSE
    /\ start_time' = -1
    /\ end_time' = -1
    /\ pc' = [t \in Threads |-> IF t = "loop"
                                 THEN (IF caller = "cli" THEN "main" ELSE "entry")
                                 ELSE "idle"]
    /\ attempt' = 0
    /\ success' = FALSE
    /\ refresh_count' = 0
    /\ failure_count' = 0
    /\ exc' = "none"
    /\ now' = 0
    /\ clears' = 0
    /\ lastOS' = "none"
    /\ lastFlags' = {}
    /\ clearFailed' = [t \in Threads |-> FALSE]
    /\ everOk' = FALSE
    /\ exitReason' = "none"
    /\ sawRunning' = [t \in Threads |-> FALSE]
    /\ callClears' = [t \in Threads |-> 0]
    /\ stopCalls' = [t \in Threads |-> 0]
    /\ earlyStops' = 0
    /\ intAt' = "none"
    /\ reqAt' = "none"
    /\ expired' = FALSE
    /\ sleeps' = 0
    /\ reported' = FALSE
    /\ lastOk' = 0
    /\ tried' = <<>>
    /\ backoffs' = 0
    /\ psStart' = -1

PairNext ==
    \/ RunStart
    \/ PairOsAssert
    \/ PsBackoff
    \/ InitReturn
    \/ LoopHead
    \/ RefreshReturn
    \/ PairSleep
    \/ DurationCheck
    \/ RunExit
    \/ StopCheck("loop")
    \/ StopSet("loop")
    \/ StopClear("loop")
    \/ PairRestart

PairSpec == PairInit /\ [][PairNext]_vars

(***************************************************************************)
(* The tray (tray.py).  The menu callbacks run one at a time on one        *)
(* thread; every session has its timer thread (when a duration is set)     *)
(* and its worker thread.  Of a NoSleep instance the tray model keeps      *)
(* self.running: run() sets it and loops while it holds, stop() resets it. *)
(* Time is not counted here: a duration may elapse, and a join with a      *)
(* timeout may give up, at any moment.                                     *)
(***************************************************************************)
core == <<caller, duration_minutes, interval_seconds, verbose, prevent_display,
          away_mode, script, phase, first, earlyStops, running, start_time, end_time,
          pc, locals, exc, now, oshist, exitReason, stophist, intAt, reqAt, expired,
          sleeps, refhist>>

TGoto(x, p) == [tpc EXCEPT ![x] = p]

\* Thread.is_alive(): started and not yet finished
Alive(x) == tpc[x] \notin {"unstarted", "done", "crashed"}

\* Thread.join raises RuntimeError when the thread joins itself
JoinRaises(target, x) == target = x

\* set_duration(minutes): self.duration_minutes = minutes, then start_nosleep,
\* which begins with if self.is_running: self.stop_nosleep()
SetDuration(d) ==
    /\ tpc[Gui] = "idle"
    /\ sessions < MaxSessions
    /\ tray_duration' = d
    /\ sessions' = sessions + 1
    /\ IF is_running
         THEN /\ tpc' = TGoto(Gui, "sn_check")
              /\ ret' = [ret EXCEPT ![Gui] = "st_new"]
         ELSE /\ tpc' = TGoto(Gui, "st_new")
              /\ UNCHANGED ret
    /\ UNCHANGED <<is_running, stop_event, nosleep, timer_thread, nosleep_thread, ui,
                   workerloc, inst_running, trayhist, core>>

\* start_nosleep: self.nosleep = NoSleep(); self.is_running = True;
\* self.stop_event.clear(); the icon turns green
StartNew ==
    /\ tpc[Gui] = "st_new"
    /\ nosleep' = sessions
    /\ is_running' = TRUE
    /\ stop_event' = FALSE
    /\ ui' = "active"
    /\ tpc' = TGoto(Gui, "st_timer")
    /\ UNCHANGED <<timer_thread, nosleep_thread, tray_duration, sessions, ret,
                   workerloc, inst_running, trayhist, core>>

\* start_nosleep: if self.duration_minutes is not None, a join of at most 0.5 s
\* with a previous timer thread that is alive, then the new timer thread
StartTimer ==
    /\ tpc[Gui] = "st_timer"
    /\ IF tray_duration # None
         THEN /\ timer_thread' = TimerOf(sessions)
              /\ tpc' = [tpc EXCEPT ![Gui] = "st_worker", ![TimerOf(sessions)] = "t_wait"]
         ELSE /\ tpc' = TGoto(Gui, "st_worker")
              /\ UNCHANGED timer_thread
    /\ UNCHANGED <<is_running, stop_event, nosleep, nosleep_thread, tray_duration, ui,
                   sessions, ret, workerloc, inst_running, trayhist, core>>

\* start_nosleep: a join of at most 0.5 s with a previous worker thread that is
\* alive, then the new worker thread
StartWorker ==
    /\ tpc[Gui] = "st_worker"
    /\ nosleep_thread' = WorkerOf(sessions)
    /\ tpc' = [tpc EXCEPT ![Gui] = "idle", ![WorkerOf(sessions)] = "w_call"]
    /\ UNCHANGED <<is_running, stop_event, nosleep, timer_thread, tray_duration, ui,
                   sessions, ret, workerloc, inst_running, trayhist, core>>

\* the menu item Stop: stop_nosleep on the menu thread
MenuStop ==
    /\ tpc[Gui] = "idle"
    /\ sessions >= 1
    /\ tpc' = TGoto(Gui, "sn_check")
    /\ ret' = [ret EXCEPT ![Gui] = "idle"]
    /\ UNCHANGED <<trayobj, workerloc, inst_running, trayhist, core>>

\* stop_nosleep: if not self.is_running: return
SnCheck(x) ==
    /\ tpc[x] = "sn_check"
    /\ tpc' = TGoto(x, IF is_running THEN "sn_set" ELSE ret[x])
    /\ UNCHANGED <<trayobj, ret, workerloc, inst_running, trayhist, core>>

\* stop_nosleep: self.is_running = False; self.stop_event.set()
SnSet(x) ==
    /\ tpc[x] = "sn_set"
    /\ is_running' = FALSE
    /\ stop_event' = TRUE
    /\ tpc' = TGoto(x, "sn_tjoin")
    /\ UNCHANGED <<nosleep, timer_thread, nosleep_thread, tray_duration, ui, sessions,
                   ret, workerloc, inst_running, trayhist, core>>

\* stop_nosleep: if self.timer_thread and self.timer_thread.is_alive():
\* self.timer_thread.join(timeout=2.0); self.timer_thread = None
SnTimerJoin(x) ==
    /\ tpc[x] = "sn_tjoin"
    /\ IF timer_thread # None /\ Alive(timer_thread)
         THEN IF JoinRaises(timer_thread, x)
                THEN /\ tpc' = TGoto(x, "crashed")
                     /\ UNCHANGED timer_thread
                ELSE /\ timer_thread' = None
                     /\ tpc' = TGoto(x, "sn_wjoin")
         ELSE /\ tpc' = TGoto(x, "sn_wjoin")
              /\ UNCHANGED timer_thread
    /\ UNCHANGED <<is_running, stop_event, nosleep, nosleep_thread, tray_duration, ui,
                   sessions, ret, workerloc, inst_running, trayhist, core>>

\* stop_nosleep: the same for self.nosleep_thread
SnWorkerJoin(x) ==
    /\ tpc[x] = "sn_wjoin"
    /\ IF nosleep_thread # None /\ Alive(nosleep_thread)
         THEN IF JoinRaises(nosleep_thread, x)
                THEN /\ tpc' = TGoto(x, "crashed")
                     /\ UNCHANGED nosleep_thread
                ELSE /\ nosleep_thread' = None
                     /\ tpc' = TGoto(x, "sn_stop")
         ELSE /\ tpc' = TGoto(x, "sn_stop")
              /\ UNCHANGED nosleep_thread
    /\ UNCHANGED <<is_running, stop_event, nosleep, timer_thread, tray_duration, ui,
                   sessions, ret, workerloc, inst_running, trayhist, core>>

\* stop_nosleep: if self.nosleep: self.nosleep.stop(); self.nosleep = None
SnStop(x) ==
    /\ tpc[x] = "sn_stop"
    /\ IF nosleep # None
         THEN /\ inst_running' = [inst_running EXCEPT ![nosleep] = FALSE]
              /\ trayStopped' = [trayStopped EXCEPT ![nosleep] = TRUE]
              /\ nosleep' = None
         ELSE UNCHANGED <<inst_running, trayStopped, nosleep>>
    /\ tpc' = TGoto(x, "sn_ui")
    /\ UNCHANGED <<is_running, stop_event, timer_thread, nosleep_thread, tray_duration,
                   ui, sessions, ret, workerloc, elapsed, fired, firedCurrent, core>>

\* stop_nosleep: the icon turns gray, the title "nosleep - Inactive"; the
\* notification; return
SnUi(x) ==
    /\ tpc[x] = "sn_ui"
    /\ ui' = "inactive"
    /\ tpc' = TGoto(x, ret[x])
    /\ UNCHANGED <<is_running, stop_event, nosleep, timer_thread, nosleep_thread,
                   tray_duration, sessions, ret, workerloc, inst_running, trayhist, core>>

\* _duration_timer: self.stop_event.wait(duration_seconds) returns because the
\* duration has elapsed
TimerExpire(k) ==
    /\ tpc[TimerOf(k)] = "t_wait"
    /\ elapsed' = [elapsed EXCEPT ![k] = TRUE]
    /\ tpc' = TGoto(TimerOf(k), "t_woke")
    /\ UNCHANGED <<trayobj, ret, workerloc, inst_running, fired, firedCurrent,
                   trayStopped, core>>

\* _duration_timer: self.stop_event.wait(duration_seconds) returns because the
\* event is set
TimerWake(k) ==
    /\ tpc[TimerOf(k)] = "t_wait"
    /\ stop_event
    /\ tpc' = TGoto(TimerOf(k), "t_woke")
    /\ UNCHANGED <<trayobj, ret, workerloc, inst_running, trayhist, core>>

\* _duration_timer: if not self.stop_event.is_set(): self.on_timeout(), which
\* notifies and calls stop_nosleep
TimerCheck(k) ==
    /\ tpc[TimerOf(k)] = "t_woke"
    /\ IF stop_event
         THEN /\ tpc' = TGoto(TimerOf(k), "done")
              /\ UNCHANGED <<ret, fired, firedCurrent>>
         ELSE /\ fired' = [fired EXCEPT ![k] = TRUE]
              /\ firedCurrent' = [firedCurrent EXCEPT ![k] = is_running /\ nosleep = k]
              /\ tpc' = TGoto(TimerOf(k), "sn_check")
              /\ ret' = [ret EXCEPT ![TimerOf(k)] = "done"]
    /\ UNCHANGED <<trayobj, workerloc, inst_running, elapsed, trayStopped, core>>

\* _run_nosleep: self.nosleep.run(duration_minutes=self.duration_minutes, ...)
\* reads self.nosleep and self.duration_minutes when the worker gets to it; on
\* None the AttributeError is caught by except Exception, which notifies and
\* calls stop_nosleep
WorkerCall(k) ==
    /\ tpc[WorkerOf(k)] = "w_call"
    /\ ref' = [ref EXCEPT ![k] = nosleep]
    /\ wdur' = [wdur EXCEPT ![k] = tray_duration # None]
    /\ IF nosleep = None
         THEN /\ tpc' = TGoto(WorkerOf(k), "sn_check")
              /\ ret' = [ret EXCEPT ![WorkerOf(k)] = "done"]
         ELSE /\ tpc' = TGoto(WorkerOf(k), "w_enter")
              /\ UNCHANGED ret
    /\ UNCHANGED <<trayobj, inst_running, trayhist, core>>

\* NoSleep.run: self.running = True
WorkerEnter(k) ==
    /\ tpc[WorkerOf(k)] = "w_enter"
    /\ inst_running' = [inst_running EXCEPT ![ref[k]] = StartRunning(FALSE)]
    /\ tpc' = TGoto(WorkerOf(k), "w_loop")
    /\ UNCHANGED <<trayobj, ret, workerloc, trayhist, core>>

\* NoSleep.run: the loop is left when self.running is found false or when the
\* duration given to run() has elapsed
WorkerLoop(k) ==
    /\ tpc[WorkerOf(k)] = "w_loop"
    /\ ~inst_running[ref[k]] \/ wdur[k]
    /\ tpc' = TGoto(WorkerOf(k), "w_finally")
    /\ UNCHANGED <<trayobj, ret, workerloc, inst_running, trayhist, core>>

\* NoSleep.run: finally: self.stop(); _run_nosleep returns
WorkerFinally(k) ==
    /\ tpc[WorkerOf(k)] = "w_finally"
    /\ inst_running' = [inst_running EXCEPT ![ref[k]] = FALSE]
    /\ tpc' = TGoto(WorkerOf(k), "done")
    /\ UNCHANGED <<trayobj, ret, workerloc, trayhist, core>>

TrayInit == Init /\ caller = "tray" /\ duration_minutes = 0

TrayNext ==
    \/ \E d \in Durations : SetDuration(d)
    \/ StartNew
    \/ StartTimer
    \/ StartWorker
    \/ MenuStop
    \/ \E x \in TrayThreads :
        SnCheck(x) \/ SnSet(x) \/ SnTimerJoin(x) \/ SnWorkerJoin(x) \/ SnStop(x) \/ SnUi(x)
    \/ \E k \in Sessions :
        \/ TimerExpire(k) \/ TimerWake(k) \/ TimerCheck(k)
        \/ WorkerCall(k) \/ WorkerEnter(k) \/ WorkerLoop(k) \/ WorkerFinally(k)

TraySpec == TrayInit /\ [][TrayNext]_vars

(***************************************************************************)
(* Claims                                                                  *)
(***************************************************************************)
RunLeft == pc["loop"] \in {"returned", "raised"}
TimerOut == pc["timer"] = "idle"

\* C1: whatever ended the loop, exactly one OS clear call has been made once
\* run() is left and no stop() call is still under way.
C1_ExactlyOneClear ==
    (RunLeft /\ exitReason # "none" /\ TimerOut) => clears = 1

\* C2: a run without duration whose OS assert calls all fail, and which nobody
\* cancels, ends after exactly 5 failed refreshes, not by the duration exit, with
\* exactly one OS clear call.
C2_AlwaysFailing ==
    (RunLeft /\ ~everOk /\ duration_minutes = 0 /\ interval_seconds > 0
        /\ intAt = "none" /\ stopCalls["timer"] = 0)
    => (exitReason = "fatal" /\ refresh_count = 5 /\ failure_count = 5 /\ clears = 1)

\* C3: with interval <= 0 the controller never becomes Running and no OS call
\* (assert or clear) is ever made.
C3_InvalidIntervalNoOsCalls ==
    interval_seconds <= 0 => (~running /\ start_time = -1 /\ lastOS = "none")

\* C4: a stop() whose check finds running false returns at once, making no OS
\* call and changing no controller state; a stop() that found running true has
\* made exactly one clear call when it returns, and running is false then.
C4_StopIdempotent ==
    [][\A t \in Threads :
        /\ (pc[t] = "stop_check" /\ pc'[t] # "stop_check" /\ ~running)
            => (pc'[t] = "stop_ret"
                /\ UNCHANGED <<running, start_time, end_time, clears, lastOS>>)
        /\ (pc[t] # "stop_ret" /\ pc'[t] = "stop_ret")
            => (~running' /\ callClears'[t] = (IF sawRunning'[t] THEN 1 ELSE 0))
      ]_vars

\* C4 witness: the tray thread's second stop() in a row has returned without a
\* clear, after its first stop() cleared a controller that is still in its loop.
C4_Witness ==
    /\ stopCalls["timer"] = 2
    /\ pc["timer"] = "stop_ret"
    /\ ~sawRunning["timer"]
    /\ callClears["timer"] = 0
    /\ clears = 1
    /\ pc["loop"] \in LoopPcs

\* C5: when the loop thread leaves by the duration exit and a tray thread has
\* called stop() as well, exactly one OS clear call has been made in total.
C5_ConcurrentStopOneClear ==
    (exitReason = "duration" /\ pc["loop"] \in {"stop_ret", "returned"}
        /\ stopCalls["timer"] >= 1 /\ TimerOut)
    => clears = 1

\* C6: an external stop() requested during the backoff of the initial assert,
\* during the interval sleep or between two refresh attempts ends with run()
\* returned, running false and exactly one OS clear call.
C6_StopConverges ==
    (reqAt = "waiting"
        /\ RunLeft /\ TimerOut)
    => (pc["loop"] = "returned" /\ ~running /\ clears = 1)

\* C7: an interrupt that arrives inside the refresh loop goes through stop()
\* before run() is left: running is false and exactly one OS clear call was made.
C7_LoopInterruptStops ==
    (intAt \in LoopPcs /\ RunLeft)
    => (stopCalls["loop"] = 1 /\ ~running /\ clears = 1)

\* C7 witness: SystemExit from the SIGINT handler during the interval sleep has
\* left run() after one clear.
C7_Witness ==
    /\ intAt = "sleep"
    /\ exc = "SystemExit"
    /\ pc["loop"] = "raised"
    /\ clears = 1

\* C8: an interrupt that arrives during the initial assert attempt goes through
\* stop() before run() is left: running is false and the OS clear call was made.
C8_InitialInterruptStops ==
    (intAt \in InitialPcs /\ RunLeft)
    => (stopCalls["loop"] = 1 /\ ~running /\ clears >= 1)

\* C9: a run with a duration and a positive interval that nobody interrupts
\* eventually returns, whatever the OS assert calls answer.
C9_FiniteRunReturns ==
    (pc["loop"] = "init_call" /\ duration_minutes > 0 /\ interval_seconds > 0)
    ~> (pc["loop"] = "returned" \/ intAt # "none")

\* C9 witness: a run with a duration and failing asserts has returned by the
\* duration exit.
C9_Witness ==
    /\ pc["loop"] = "returned"
    /\ exitReason = "duration"
    /\ ~everOk
    /\ interval_seconds = DefaultInterval

\* C10: a run that ends by duration expiry has lasted at least the duration,
\* took the exit at the check after an interval sleep (so after at least one
\* refresh), and starts no refresh once a check has seen now >= end_time.
C10_DurationExit ==
    /\ exitReason = "duration"
        => /\ now - start_time >= Minutes(duration_minutes)
           /\ expired
           /\ refresh_count >= 1
           /\ sleeps = refresh_count
    /\ expired
        => /\ exitReason = "duration"
           /\ pc["loop"] \in StopPcs \cup {"stop_ret", "returned"}

\* C10 witness: end_time was reached during the first interval sleep, and the
\* run returned after its single refresh.
C10_Witness ==
    /\ pc["loop"] = "returned"
    /\ exitReason = "duration"
    /\ refresh_count = 1
    /\ interval_seconds = SecondsPerMinute

\* C11: run(duration_minutes=1, interval_seconds=60, verbose=False), the
\* interval as long as the duration, left without an interrupt has returned by
\* the duration exit after exactly one refresh, which logged no status line,
\* one interval sleep and one stop() call, about one minute after it started.
C11_OneRefresh ==
    (duration_minutes = 1 /\ interval_seconds = SecondsPerMinute /\ ~verbose
        /\ intAt = "none" /\ RunLeft)
    => /\ pc["loop"] = "returned"
       /\ exitReason = "duration"
       /\ expired
       /\ refresh_count = 1
       /\ ~reported
       /\ sleeps = 1
       /\ stopCalls["loop"] = 1
       /\ now - start_time >= Minutes(1)
       /\ now - start_time <= Minutes(1) + MaxJitter + 2 * BackoffTicks

\* C11 witness: such a run whose OS assert calls all succeeded has returned
\* after its single refresh.
C11_Witness ==
    /\ duration_minutes = 1
    /\ interval_seconds = SecondsPerMinute
    /\ ~verbose
    /\ pc["loop"] = "returned"
    /\ refresh_count = 1
    /\ lastOk = 1
    /\ now - start_time <= Minutes(1) + MaxJitter
    /\ clears = 1

\* C11 as stated, the arguments taken as the code takes them:
\* run(duration_minutes=1, interval_seconds=1, verbose=False) performs exactly
\* one refresh.
C11_OneRefreshLiteral ==
    (duration_minutes = 1 /\ interval_seconds = OneSecond /\ ~verbose)
    => refresh_count <= 1

\* C12: all through the loop the failure counter is the number of refreshes
\* that failed since the last successful one (or since the loop began): it is
\* 0 after every successful refresh, so failures on either side of a success
\* never add up.
C12_ConsecutiveFailures ==
    /\ pc["loop"] \in {"loop_head", "sleep", "dur_check"}
        => failure_count = refresh_count - lastOk
    /\ pc["loop"] \in {"refresh_call", "refresh_backoff"}
        => failure_count = (refresh_count - 1) - lastOk
    /\ (pc["loop"] = "refresh_ret" /\ ~success)
        => failure_count = (refresh_count - 1) - lastOk
    /\ (pc["loop"] = "refresh_ret" /\ success) => lastOk = refresh_count
    /\ (pc["loop"] \in {"sleep", "dur_check"} /\ success) => failure_count = 0

\* C12 witness: the third refresh failed after the second succeeded, and the
\* counter stands at 1 whatever the first refresh did.
C12_Witness ==
    /\ pc["loop"] = "sleep"
    /\ refresh_count = 3
    /\ lastOk = 2
    /\ ~success
    /\ failure_count = 1

\* C13: the failure counter never exceeds 5 and is below 5 wherever the loop
\* goes on; the refresh that brings it to 5 sets running to false and leaves
\* the loop at once, without the interval sleep and without the duration
\* check, with or without a duration.
C13_FatalThreshold ==
    /\ failure_count <= 5
    /\ pc["loop"] \in LoopPcs => failure_count < 5
    /\ failure_count = 5
        => /\ exitReason = "fatal"
           /\ ~running
           /\ pc["loop"] \in StopPcs \cup {"stop_ret", "returned"}
           /\ sleeps = refresh_count - 1
           /\ ~expired
    /\ exitReason = "fatal" => failure_count = 5

\* C13 witness: a run with a duration has returned by the fatal threshold,
\* one sleep short of its refreshes.
C13_Witness ==
    /\ duration_minutes > 0
    /\ pc["loop"] = "returned"
    /\ exitReason = "fatal"
    /\ failure_count = 5
    /\ sleeps = refresh_count - 1

\* C14: on one instance at most one refresh loop is active: a run() called
\* while another run() is executing does not get into a loop of its own.
C14_SingleLoop ==
    ~(pc["loop"] \in LoopPcs /\ pc["second"] = "second_loop")

\* C15: once a stop() of another thread has set running to false while the
\* loop thread is in its interval sleep, the loop thread leaves the sleep
\* without the clock advancing any further.
C15_StopPreemptsSleep ==
    [][(pc["loop"] = "sleep" /\ ~running /\ stopCalls["timer"] >= 1
            /\ pc'["loop"] # "sleep")
        => now' = now]_vars

\* C17: the status line of refresh number n is logged exactly when the refresh
\* succeeded and (verbose or n is even); without verbose no odd refresh is
\* reported, and a failed refresh is never reported.
C17_StatusReports ==
    /\ pc["loop"] \in {"sleep", "dur_check"}
        => (reported <=> (success /\ (verbose \/ refresh_count % 2 = 0)))
    /\ (reported /\ ~verbose) => refresh_count % 2 = 0
    /\ reported => lastOk = refresh_count

\* C17 witness: without verbose the second refresh succeeded and was reported.
C17_Witness ==
    /\ ~verbose
    /\ pc["loop"] = "sleep"
    /\ refresh_count = 2
    /\ reported

\* C18: every prevent_sleep makes at most 2 OS calls; a second call is made
\* only after a failed first one and after exactly one backoff of 500 ms, a
\* first-try success is followed by no backoff, and prevent_sleep returns True
\* exactly when one of its OS calls returned non-zero.
C18_TwoTries ==
    /\ Len(tried) <= 2
    /\ backoffs <= 1
    /\ Len(tried) = 2 => (tried[1] # "ok" /\ backoffs = 1)
    /\ pc["loop"] \in {"init_ret", "refresh_ret"}
        => /\ Len(tried) \in {1, 2}
           /\ Len(tried) = 1 => (tried[1] = "ok" /\ backoffs = 0 /\ now = psStart)
           /\ Len(tried) = 2 => now = psStart + BackoffTicks
           /\ success <=> (\E i \in 1..Len(tried) : tried[i] = "ok")

\* C18 witness: a refresh whose first OS call raised and whose second call,
\* one backoff later, succeeded.
C18_Witness ==
    /\ pc["loop"] = "refresh_ret"
    /\ tried = <<"raise", "ok">>
    /\ backoffs = 1
    /\ success

\* C19: a failed initial assert attempt does not abort the run: run() goes on
\* to the head of the refresh loop with the failure counter and the refresh
\* counter at 0 and running untouched, and after any successful refresh the
\* counter is 0 again, as it is after a successful initial attempt.
C19_InitialFailureIgnored ==
    /\ [][(pc["loop"] = "init_ret" /\ pc'["loop"] # "init_ret" /\ intAt' = intAt)
            => /\ pc'["loop"] = "loop_head"
               /\ failure_count' = 0
               /\ refresh_count' = 0
               /\ running' = running
               /\ exitReason' = "none"
               /\ exc' = "none"]_vars
    /\ []((pc["loop"] = "loop_head" /\ refresh_count = 0) => failure_count = 0)
    /\ []((pc["loop"] \in {"sleep", "dur_check"} /\ lastOk = refresh_count)
            => (failure_count = 0 /\ success))

\* C19 witness: no OS call has succeeded, the initial attempt has failed, and
\* the run stands at the head of its loop, still running, with both counters
\* at 0.
C19_Witness ==
    /\ pc["loop"] = "loop_head"
    /\ ~everOk
    /\ lastOS = "assert"
    /\ running
    /\ refresh_count = 0
    /\ failure_count = 0
    /\ exitReason = "none"

\* C20: in a run with a positive interval that no interrupt reaches, no
\* exception is ever in flight in run(): whatever the OS calls return or
\* raise, run() is left by a normal return, and the fatal threshold ends it by
\* a normal return too.
C20_NoErrorEscapes ==
    /\ (interval_seconds > 0 /\ intAt = "none")
        => (exc = "none" /\ pc["loop"] # "raised")
    /\ exitReason = "fatal" => (exc = "none" /\ pc["loop"] # "raised")
    /\ (RunLeft /\ interval_seconds > 0 /\ intAt = "none")
        => (pc["loop"] = "returned" /\ exitReason \in {"fatal", "duration", "stopped"})

\* C20 witness: both OS calls of a refresh raised, prevent_sleep returned
\* False with no exception in flight, and the run goes on to its fifth
\* failure in a row.
C20_Witness ==
    /\ interval_seconds > 0
    /\ pc["loop"] = "refresh_ret"
    /\ tried = <<"raise", "raise">>
    /\ ~success
    /\ failure_count = 4
    /\ exc = "none"

\* C16: two runs that differ only in verbose and see the same OS answers and
\* the same clock cannot be told apart but by the log: in the same interval
\* sleep and at their end they show the same OS calls made, the same refresh
\* and failure counts, the same clock and the same reason to end, and the
\* second run makes no refresh that the first did not make.
C16_VerboseNoEffect ==
    phase = 2
    => /\ (pc["loop"] = "sleep" /\ first.pc = "sleep"
              /\ refresh_count = first.refresh_count)
            => Observed = first
       /\ (Ended(Observed) /\ Ended(first)) => Observed = first
       /\ Ended(first)
            => (refresh_count <= first.refresh_count /\ now <= first.now)

\* C16 witness: a verbose run has returned by the duration exit after three
\* refreshes, the third one reported, exactly as the non-verbose run before it
\* did without reporting the third.
C16_Witness ==
    /\ phase = 2
    /\ verbose
    /\ reported
    /\ refresh_count = 3
    /\ pc["loop"] = "returned"
    /\ exitReason = "duration"
    /\ Observed = first

\* C21: every OS assert call (the initial one, every refresh, every retry)
\* carries continuous and system-required, display-required exactly when
\* prevent_display is true and away-mode-required exactly when away_mode is
\* true; every OS clear call carries continuous alone.
C21_Flags ==
    /\ lastOS = "assert" =>
           /\ {31, 0} \subseteq lastFlags
           /\ lastFlags \subseteq {31, 0, 1, 6}
           /\ (1 \in lastFlags) = prevent_display
           /\ (6 \in lastFlags) = away_mode
    /\ lastOS = "clear" => lastFlags = {31}
    /\ lastOS = "none" => lastFlags = {}

\* a retry of a refresh has been made with display-required and without
\* away-mode-required, after an earlier clear-free run of two refreshes
C21_Witness ==
    /\ prevent_display /\ ~away_mode
    /\ pc["loop"] = "refresh_ret"
    /\ refresh_count = 2
    /\ Len(tried) = 2
    /\ lastFlags = {31, 0, 1}

\* C22: the controller follows Idle -> Running -> Idle: running is false before
\* run() is entered, true from the start of run() until a terminal condition
\* or a stop(), and false whenever control has left run(), by return or by an
\* exception.
C22_IdleAfterRun ==
    /\ pc["loop"] \in {"main", "entry", "rejected"} => ~running
    /\ (pc["loop"] \in InitialPcs /\ stopCalls["timer"] = 0) => running
    /\ RunLeft => ~running

\* C25: once a stop() has made the OS clear call for the controller, the run
\* loop makes no further OS assert call, and the last OS call made for a
\* controller whose run() has returned is a clear.
C25_ClearIsLast ==
    /\ [][clears >= 1 => Len(tried') # Len(tried) + 1]_vars
    /\ []((pc["loop"] = "returned" /\ clears >= 1) => lastOS = "clear")

\* C26: a stop() that returned before run() set running did nothing and is not
\* remembered: run() sets running whatever came before, and a run whose only
\* stop() calls from outside were such early ones is neither prevented (it is
\* running through its initial attempt and its loop) nor shortened (it ends
\* by its own duration, not before it has elapsed, or by the fatal threshold).
C26_EarlyStopForgotten ==
    LET onlyEarly == earlyStops >= 1 /\ stopCalls["timer"] = earlyStops /\ TimerOut
    IN  /\ (earlyStops >= 1 /\ pc["loop"] = "entry") =>
               (~running /\ clears = 0 /\ lastOS = "none")
        /\ (onlyEarly /\ pc["loop"] \in InitialPcs \cup LoopPcs) => running
        /\ (onlyEarly /\ RunLeft) =>
               /\ exitReason \in {"duration", "fatal"}
               /\ exitReason = "duration" =>
                      (duration_minutes > 0 /\ now - start_time >= Minutes(duration_minutes))
               /\ exitReason = "fatal" => failure_count = MAX_FAILURES

\* a tray stop() returned before the worker entered run(), and the run then
\* went through its three refreshes to the duration exit
C26_Witness ==
    /\ earlyStops = 1
    /\ stopCalls["timer"] = 1
    /\ pc["loop"] = "returned"
    /\ exitReason = "duration"
    /\ refresh_count = 3
    /\ clears = 1

\* C27: a stop() that found the controller running makes one OS clear call and
\* no more, whether the call succeeds, returns 0 or raises: after that one call
\* it returns normally with running false and no exception in flight; and a
\* stop() whose check comes after a clear call has been made, a failed one
\* included, makes no OS call.
C27_OneClearNoRetry ==
    [][\A t \in {"loop", "timer"} :
        /\ (pc[t] = "stop_clear" /\ clears' # clears /\ callClears'[t] # callClears[t])
            => /\ callClears'[t] = 1
               /\ clears' = clears + 1
               /\ pc'[t] = "stop_ret"
               /\ ~running'
               /\ exc' = exc
        /\ (pc[t] = "stop_check" /\ pc'[t] # "stop_check" /\ clears >= 1)
            => (pc'[t] = "stop_ret" /\ clears' = clears /\ lastOS' = lastOS)
        /\ (pc[t] = "stop_ret" /\ pc'[t] = "stop_ret") => callClears'[t] = callClears[t]
      ]_vars

\* the clear call of the stop() that ended run() failed (run() returned all the
\* same), and a stop() of the tray thread made afterwards has returned without
\* an OS call
C27_Witness ==
    /\ clearFailed["loop"]
    /\ callClears["loop"] = 1
    /\ pc["loop"] = "returned"
    /\ exc = "none"
    /\ ~running
    /\ clears = 1
    /\ stopCalls["timer"] >= 1
    /\ pc["timer"] = "stop_ret"
    /\ ~sawRunning["timer"]
    /\ callClears["timer"] = 0
    /\ reqAt = "busy"

\* C23: when the duration timer of a tray session expires while that session is
\* still the running one, on_timeout -> stop_nosleep runs to its end on the
\* timer thread: the thread finishes normally, stop() has been called on the
\* session's instance, and, as long as no other session has been started,
\* self.nosleep is None, the icon is inactive and is_running is false.
C23_TimeoutStops ==
    \A k \in Sessions :
        (fired[k] /\ elapsed[k] /\ firedCurrent[k] /\ ~Alive(TimerOf(k)))
        => /\ tpc[TimerOf(k)] = "done"
           /\ trayStopped[k]
           /\ (sessions = k /\ tpc[Gui] = "idle")
                  => (nosleep = None /\ ui = "inactive" /\ ~is_running)

\* C24: as long as sessions are ended by start_nosleep and the menu alone (no
\* timer has called on_timeout), at most one NoSleep instance created by the
\* tray has running = true at any time, and a worker thread that is in run()
\* runs the instance created by the start_nosleep call that started the thread.
C24_OneInstance ==
    (\A k \in Sessions : ~fired[k]) =>
        /\ Cardinality({k \in Sessions : inst_running[k]}) <= 1
        /\ \A k \in Sessions :
               tpc[WorkerOf(k)] \in {"w_enter", "w_loop", "w_finally"} => ref[k] = k

\* C28: a timer thread calls on_timeout only when its wait ended because its
\* own duration had elapsed, never after a wait that ended because the session
\* was stopped.
C28_TimeoutOnlyElapsed ==
    \A k \in Sessions : fired[k] => elapsed[k]

====
